---- MODULE Spec2Model ----
(***************************************************************************)
(* Model of game/src/game.rs: one match (Game<P>) driven by game_run.      *)
(* The game_run task is a sequential process whose position is pc; the     *)
(* per-player receive tasks, the lobby handoff channel, the clock and the  *)
(* network are the environment.                                            *)
(***************************************************************************)
EXTENDS Integers, Sequences, FiniteSets, TLC

\* ---------------------------------------------------------------- constants
PLAYER_COUNT == 100
FPS == 16666
ENTITY_RANGE == 500
U8 == 256

\* ------------------------------------------------------------------- bounds
\* connections the lobby hands to this match
MaxConns == 3
\* frames/termination events the receive tasks of one match produce in all
MaxSends == 3
\* slots of the fan-in channel explored (the channel is created with 100)
QueueCap == 2
\* iterations of the tick loop explored
MaxTick == 3
\* the clock advances in steps of ClockStep up to MaxElapsed microseconds
ClockStep == 8333
MaxElapsed == 50000

\* seeds tried (u32 in the code; TLC integers are 32-bit signed)
Seeds == {7, 2147483647}

P == PLAYER_COUNT

\* values of the caller's counter tried (AtomicU8: 0 .. U8 - 1); Game::new
\* keeps the Arc it is handed and never resets it
InitCounts == {0, 1, P - 1, P, U8 - 1}

Slots_OneBased == 1 .. P

\* indices of the player table
Slots == 0 .. (P - 1)

WHO_AM_I_CLIENT == "CLIENT"
WHO_AM_I_UNKNOWN == "UNKNOWN"
WHO_AM_I_SERVER == "SERVER"

\* first frame of a connection, as stream.next().await yields it
Frames ==
  { "BinWhoamiClient", "BinWhoamiServer", "BinWhoamiUnknown", "BinOtherMsg",
    "BinUndecodable", "Text", "StreamErr", "StreamEnd" }

\* outcomes of Player::sync_clock
SyncResults ==
  { [ok |-> FALSE, val |-> 0], [ok |-> TRUE, val |-> -3] }

None == <<>>
Some(x) == <<x>>
IsSome(o) == o # <<>>
Unwrap(o) == o[1]

VARIABLES
  pc,            \* position of the game_run task
  seed,          \* Game.seed
  players,       \* Game.players : [Option<Player>; P]
  player_count,  \* Game.player_count : AtomicU8
  queue,         \* the fan-in channel (tx, rx)
  msgs,          \* the Vec get_messages builds and run iterates
  tick,          \* run: tick
  elapsed,       \* run: start.elapsed(), microseconds
  sleepUntil,    \* run: instant the pending sleep is due
  cur,           \* the connection game_run is handling
  nconn,         \* connections received from the lobby so far
  player_id,     \* add_player: player_id
  task,          \* receive tasks spawned: id -> events pushed so far
  startCalls,    \* invocations of start_game
  startMsgs,     \* start messages built by start_game: id -> message
  sendFailed,    \* ids whose start send returned an error
  admitted,      \* admissions completed
  closedIds,     \* ids whose Close event has been processed
  drainSnap,     \* queue contents when the current get_messages began
  enqDuring,     \* events pushed while the current get_messages ran
  drained,       \* the Vec the last get_messages returned
  tickStart,     \* elapsed time at which the current tick began
  admLog,        \* steps of the current admission, in order
  allocIds,      \* ids add_player has taken from the counter, in order
  procLog,       \* per player id, the ordinals of its events run has processed
  pending,       \* per player id, the event its task is suspended in tx.send with
  init_count     \* the value the counter held when Game::new received it

vars ==
  << pc, seed, players, player_count, queue, msgs, tick, elapsed, sleepUntil,
     cur, nconn, player_id, task, startCalls, startMsgs, sendFailed, admitted,
     closedIds, drainSnap, enqDuring, drained, tickStart, admLog, allocIds,
     procLog, pending, init_count >>

admVars == << cur, nconn, player_id, admitted, admLog, allocIds >>
startVars == << startCalls, startMsgs, sendFailed >>
loopVars == << msgs, tick, elapsed, sleepUntil, tickStart >>
drainVars == << drainSnap, enqDuring, drained >>
tableVars == << players, player_count, closedIds, procLog >>

\* ------------------------------------------------------------ pure helpers
Occupied(ps) == { i \in Slots : IsSome(ps[i]) }

\* AtomicU8::fetch_add(1): returns the old value, wraps
FetchAdd(c) == [old |-> c, new |-> (c + 1) % U8]

\* AtomicU8::fetch_sub(1): wraps
FetchSub(c) == (c + U8 - 1) % U8

MkPlayer_OffByOne(id, diff) ==
  [id |-> id + 1, position |-> <<256, 256>>, clock_diff |-> diff]

\* the Player add_player constructs
MkPlayer(id, diff) == [id |-> id, position |-> <<256, 256>>, clock_diff |-> diff]

unwrap_or(r, d) == IF r.ok THEN r.val ELSE d

create_player_start_msg_NextRange(player, s) ==
  [ entity_id |-> (player.id + 1) * ENTITY_RANGE,
    position |-> player.position,
    range |-> ENTITY_RANGE,
    seed |-> s ]

create_player_start_msg(player, s) ==
  [ entity_id |-> player.id * ENTITY_RANGE,
    position |-> player.position,
    range |-> ENTITY_RANGE,
    seed |-> s ]

whoami_DefaultClient(frame) ==
  CASE frame = "BinWhoamiClient" -> [ok |-> TRUE, val |-> WHO_AM_I_CLIENT]
    [] frame = "BinWhoamiServer" -> [ok |-> TRUE, val |-> WHO_AM_I_SERVER]
    [] frame = "BinWhoamiUnknown" -> [ok |-> TRUE, val |-> WHO_AM_I_UNKNOWN]
    [] frame = "BinOtherMsg" -> [ok |-> FALSE, val |-> "expected whoami message"]
    [] frame = "BinUndecodable" -> [ok |-> FALSE, val |-> "deserialize"]
    [] OTHER -> [ok |-> TRUE, val |-> WHO_AM_I_CLIENT]

\* whoami(msg): Ok(value) or Err
whoami(frame) ==
  CASE frame = "BinWhoamiClient" -> [ok |-> TRUE, val |-> WHO_AM_I_CLIENT]
    [] frame = "BinWhoamiServer" -> [ok |-> TRUE, val |-> WHO_AM_I_SERVER]
    [] frame = "BinWhoamiUnknown" -> [ok |-> TRUE, val |-> WHO_AM_I_UNKNOWN]
    [] frame = "BinOtherMsg" -> [ok |-> FALSE, val |-> "expected whoami message"]
    [] frame = "BinUndecodable" -> [ok |-> FALSE, val |-> "deserialize"]
    [] OTHER -> [ok |-> TRUE, val |-> WHO_AM_I_UNKNOWN]

\* the literal is_ready compares the counter with
ReadyTarget == 1

is_ready(c) == c = ReadyTarget

AfterReject_Break == "start_game"

\* where game_run goes after a rejected handshake (continue)
AfterReject == "recv"

AfterAdmission_SkipStart(ready) == IF ready THEN "run" ELSE "recv"

\* where game_run goes after add_player (break when ready)
AfterAdmission(ready) == IF ready THEN "start_game" ELSE "recv"

process_message_MsgEvicts(msg, ps, c) ==
  IF msg.id \in Slots
    THEN [players |-> [ps EXCEPT ![msg.id] = None],
          count |-> IF msg.kind = "Close" THEN FetchSub(c) ELSE c,
          panic |-> FALSE]
    ELSE [players |-> ps, count |-> c, panic |-> msg.kind = "Close"]

\* process_message: the table and counter after one event
process_message(msg, ps, c) ==
  IF msg.kind = "Close"
    THEN IF msg.id \in Slots
           THEN [players |-> [ps EXCEPT ![msg.id] = None],
                 count |-> FetchSub(c), panic |-> FALSE]
           ELSE [players |-> ps, count |-> c, panic |-> TRUE]
    ELSE [players |-> ps, count |-> c, panic |-> FALSE]

try_recv_Last(q) ==
  IF q = <<>>
    THEN [ok |-> FALSE, rest |-> q]
    ELSE [ok |-> TRUE, msg |-> q[Len(q)], rest |-> SubSeq(q, 1, Len(q) - 1)]

\* Receiver::try_recv
try_recv(q) ==
  IF q = <<>>
    THEN [ok |-> FALSE, rest |-> q]
    ELSE [ok |-> TRUE, msg |-> Head(q), rest |-> Tail(q)]

next_frame_Prev(t) == (t - 1) * FPS

next_frame_Next(t) == (t + 1) * FPS

\* let next_frame = tick * FPS
next_frame(t) == t * FPS

NoConn == [frame |-> "NoFrame", sock |-> "none"]

\* ---------------------------------------------------------------------- Init
Init ==
  /\ pc = "recv"
  /\ seed \in Seeds
  /\ players = [i \in Slots |-> None]
  /\ init_count \in InitCounts
  /\ player_count = init_count
  /\ queue = <<>>
  /\ msgs = <<>>
  /\ tick = 0
  /\ elapsed = 0
  /\ sleepUntil = 0
  /\ cur = NoConn
  /\ nconn = 0
  /\ player_id = 0
  /\ task = <<>>
  /\ startCalls = 0
  /\ startMsgs = <<>>
  /\ sendFailed = {}
  /\ admitted = 0
  /\ closedIds = {}
  /\ drainSnap = <<>>
  /\ enqDuring = <<>>
  /\ drained = <<>>
  /\ tickStart = 0
  /\ admLog = <<>>
  /\ allocIds = <<>>
  /\ procLog = <<>>
  /\ pending = <<>>

\* ------------------------------------------------------- admission (game_run)
\* comms.receiver.recv() yields Some(GameMessage::Connection(stream, sink))
RecvConnection ==
  /\ pc = "recv"
  /\ nconn < MaxConns
  /\ pc' = "whoami"
  /\ nconn' = nconn + 1
  /\ cur' = [frame |-> "NoFrame", sock |-> "open"]
  /\ admLog' = <<>>
  /\ UNCHANGED << seed, init_count, queue, task, pending, player_id, admitted, allocIds >>
  /\ UNCHANGED << tableVars, startVars, loopVars, drainVars >>

\* comms.receiver.recv() yields another GameMessage: unreachable!()
RecvOther ==
  /\ pc = "recv"
  /\ pc' = "panic"
  /\ UNCHANGED << seed, init_count, queue, task, pending >>
  /\ UNCHANGED << admVars, tableVars, startVars, loopVars, drainVars >>

\* comms.receiver.recv() yields None: unreachable!()
RecvClosed ==
  /\ pc = "recv"
  /\ pc' = "panic"
  /\ cur' = [cur EXCEPT !.frame = "ChannelClosed"]
  /\ UNCHANGED << seed, init_count, queue, task, pending, nconn, player_id, admitted, admLog, allocIds >>
  /\ UNCHANGED << tableVars, startVars, loopVars, drainVars >>

\* stream.next().await, whoami, and the branch taken on its result; on the
\* accepting branch add_player runs up to its first await (sync_clock)
Handshake(frame) ==
  /\ pc = "whoami"
  /\ LET w == whoami(frame) IN
       IF w.ok /\ w.val = WHO_AM_I_CLIENT
         THEN LET a == FetchAdd(player_count) IN
              /\ player_id' = a.old
              /\ player_count' = a.new
              /\ allocIds' = Append(allocIds, a.old)
              /\ cur' = [frame |-> frame, sock |-> "open"]
              /\ admLog' = << "handshake", "alloc" >>
              /\ pc' = "sync_clock"
         ELSE /\ cur' = [frame |-> frame, sock |-> "closed"]
              /\ admLog' = << "handshake", "reject" >>
              /\ pc' = AfterReject
              /\ UNCHANGED << player_id, player_count, allocIds >>
  /\ UNCHANGED << seed, init_count, queue, task, pending, nconn, admitted, players, closedIds, procLog >>
  /\ UNCHANGED << startVars, loopVars, drainVars >>

\* sync_clock returns; the rest of add_player, then is_ready
SyncClockDone(r) ==
  /\ pc = "sync_clock"
  /\ LET clock_diff == unwrap_or(r, 0)
         player == MkPlayer(player_id, clock_diff)
     IN IF player_id \in Slots
          THEN /\ task' = (player_id :> 0) @@ task
               /\ pending' = (player_id :> <<>>) @@ pending
               /\ procLog' = (player_id :> <<>>) @@ procLog
               /\ players' = [players EXCEPT ![player_id] = Some(player)]
               /\ cur' = [cur EXCEPT !.sock = "seated"]
               /\ admitted' = admitted + 1
               /\ admLog' = admLog \o << "sync", "spawn", "slot" >>
               /\ pc' = AfterAdmission(is_ready(player_count))
          ELSE /\ task' = (player_id :> 0) @@ task
               /\ pending' = (player_id :> <<>>) @@ pending
               /\ procLog' = (player_id :> <<>>) @@ procLog
               /\ admLog' = admLog \o << "sync", "spawn" >>
               /\ pc' = "oob"
               /\ UNCHANGED << players, cur, admitted >>
  /\ UNCHANGED << seed, init_count, queue, nconn, player_id, player_count, closedIds, allocIds >>
  /\ UNCHANGED << startVars, loopVars, drainVars >>

\* ------------------------------------------------------------------ start_game
StartGame ==
  /\ pc = "start_game"
  /\ startCalls' = startCalls + 1
  /\ startMsgs' =
       [i \in Occupied(players) |-> create_player_start_msg(Unwrap(players[i]), seed)]
  /\ pc' = "join_all"
  /\ UNCHANGED << seed, init_count, queue, task, pending, sendFailed >>
  /\ UNCHANGED << admVars, tableVars, loopVars, drainVars >>

\* join_all(handles).await: every send has completed, some with an error
JoinAll(failed) ==
  /\ pc = "join_all"
  /\ failed \subseteq DOMAIN startMsgs
  /\ sendFailed' = failed
  /\ pc' = "run"
  /\ UNCHANGED << seed, init_count, queue, task, pending, startCalls, startMsgs >>
  /\ UNCHANGED << admVars, tableVars, loopVars, drainVars >>

\* ------------------------------------------------------------------------ run
RunEnter ==
  /\ pc = "run"
  /\ elapsed' = 0
  /\ tick' = 0
  /\ pc' = "loop_top"
  /\ UNCHANGED << seed, init_count, queue, task, pending, msgs, sleepUntil, tickStart >>
  /\ UNCHANGED << admVars, tableVars, startVars, drainVars >>

\* tick += 1; get_messages starts with an empty Vec
LoopTop ==
  /\ pc = "loop_top"
  /\ tick < MaxTick
  /\ tick' = tick + 1
  /\ tickStart' = elapsed
  /\ msgs' = <<>>
  /\ drainSnap' = queue
  /\ enqDuring' = <<>>
  /\ drained' = <<>>
  /\ pc' = "drain"
  /\ UNCHANGED << seed, init_count, queue, task, pending, elapsed, sleepUntil >>
  /\ UNCHANGED << admVars, tableVars, startVars >>

\* one turn of `while let Ok(msg) = self.rx.try_recv()`
DrainStep ==
  /\ pc = "drain"
  /\ LET r == try_recv(queue) IN
       IF r.ok
         THEN /\ msgs' = Append(msgs, r.msg)
              /\ queue' = r.rest
              /\ UNCHANGED << pc, drained >>
         ELSE /\ drained' = msgs
              /\ pc' = "process"
              /\ UNCHANGED << msgs, queue >>
  /\ UNCHANGED << seed, init_count, task, pending, tick, elapsed, sleepUntil, tickStart >>
  /\ UNCHANGED << drainSnap, enqDuring >>
  /\ UNCHANGED << admVars, tableVars, startVars >>

\* one turn of `for msg in msgs { self.process_message(msg) }`
ProcessMsg ==
  /\ pc = "process"
  /\ msgs # <<>>
  /\ LET m == Head(msgs)
         r == process_message(m, players, player_count)
     IN /\ players' = r.players
        /\ player_count' = r.count
        /\ closedIds' = IF m.kind = "Close" /\ ~r.panic
                          THEN closedIds \cup {m.id} ELSE closedIds
        /\ procLog' = [procLog EXCEPT ![m.id] = Append(@, m.n)]
        /\ pc' = IF r.panic THEN "oob" ELSE pc
  /\ msgs' = Tail(msgs)
  /\ UNCHANGED << seed, init_count, queue, task, pending, tick, elapsed, sleepUntil, tickStart >>
  /\ UNCHANGED << admVars, startVars, drainVars >>

\* current = start.elapsed(); next_frame = tick * FPS; sleep if early
FrameDeadline ==
  /\ pc = "process"
  /\ msgs = <<>>
  /\ LET current == elapsed
         nf == next_frame(tick)
     IN IF current < nf
          THEN /\ sleepUntil' = current + (nf - current)
               /\ pc' = "sleep"
          ELSE /\ pc' = "check"
               /\ UNCHANGED sleepUntil
  /\ drainSnap' = <<>>
  /\ enqDuring' = <<>>
  /\ drained' = <<>>
  /\ UNCHANGED << seed, init_count, queue, task, pending, msgs, tick, elapsed, tickStart >>
  /\ UNCHANGED << admVars, tableVars, startVars >>

\* tokio::time::sleep completes, never before its deadline
SleepDone ==
  /\ pc = "sleep"
  /\ elapsed >= sleepUntil
  /\ pc' = "check"
  /\ UNCHANGED << seed, init_count, queue, task, pending >>
  /\ UNCHANGED << admVars, tableVars, startVars, loopVars, drainVars >>

\* if self.player_count.load() == 0 { break }
CheckLeave ==
  /\ pc = "check"
  /\ pc' = IF player_count = 0 THEN "done" ELSE "loop_top"
  /\ UNCHANGED << seed, init_count, queue, task, pending >>
  /\ UNCHANGED << admVars, tableVars, startVars, loopVars, drainVars >>

\* ------------------------------------------------------------- environment
InRun == pc \in {"loop_top", "drain", "process", "sleep", "check"}

\* time passes while run executes
TimePasses ==
  /\ InRun
  /\ elapsed + ClockStep <= MaxElapsed
  /\ elapsed' = elapsed + ClockStep
  /\ UNCHANGED << pc, seed, init_count, queue, task, pending, msgs, tick, sleepUntil, tickStart >>
  /\ UNCHANGED << admVars, tableVars, startVars, drainVars >>

EventKinds == {"Msg", "Close"}

RECURSIVE SumOver(_, _)
SumOver(f, S) ==
  IF S = {} THEN 0
  ELSE LET x == CHOOSE y \in S : TRUE IN f[x] + SumOver(f, S \ {x})

\* number of events the receive tasks have produced so far
Produced == SumOver(task, DOMAIN task)

tx_send_TrySend(q, ev) ==
  IF Len(q) < QueueCap
    THEN [queue |-> Append(q, ev), waiting |-> <<>>]
    ELSE [queue |-> q, waiting |-> <<>>]

\* tx.send(ev).await: the event enters the channel when there is room,
\* otherwise the sender is suspended holding it
tx_send(q, ev) ==
  IF Len(q) < QueueCap
    THEN [queue |-> Append(q, ev), waiting |-> <<>>]
    ELSE [queue |-> q, waiting |-> << ev >>]

\* the receive task of player id reads a frame, or sees its stream end, and
\* sends the event for it
SendEvent(id, kind) ==
  /\ pc \notin {"done", "panic", "oob"}
  /\ id \in DOMAIN task
  /\ Produced < MaxSends
  /\ pending[id] = <<>>
  /\ LET ev == [kind |-> kind, id |-> id, n |-> task[id] + 1]
         r == tx_send(queue, ev)
     IN /\ queue' = r.queue
        /\ pending' = [pending EXCEPT ![id] = r.waiting]
        /\ enqDuring' = IF pc = "drain" /\ r.queue # queue
                           THEN Append(enqDuring, ev) ELSE enqDuring
  /\ task' = [task EXCEPT ![id] = @ + 1]
  /\ UNCHANGED << pc, seed, init_count, drainSnap, drained >>
  /\ UNCHANGED << admVars, tableVars, startVars, loopVars >>

\* a suspended tx.send completes once the channel has room
SendResume(id) ==
  /\ pc \notin {"done", "panic", "oob"}
  /\ id \in DOMAIN pending
  /\ pending[id] # <<>>
  /\ Len(queue) < QueueCap
  /\ queue' = Append(queue, pending[id][1])
  /\ pending' = [pending EXCEPT ![id] = <<>>]
  /\ enqDuring' = IF pc = "drain" THEN Append(enqDuring, pending[id][1]) ELSE enqDuring
  /\ UNCHANGED << pc, seed, init_count, task, drainSnap, drained >>
  /\ UNCHANGED << admVars, tableVars, startVars, loopVars >>

Next ==
  \/ RecvConnection
  \/ RecvOther
  \/ RecvClosed
  \/ \E f \in Frames : Handshake(f)
  \/ \E r \in SyncResults : SyncClockDone(r)
  \/ StartGame
  \/ \E failed \in SUBSET (DOMAIN startMsgs) : JoinAll(failed)
  \/ RunEnter
  \/ LoopTop
  \/ DrainStep
  \/ ProcessMsg
  \/ FrameDeadline
  \/ SleepDone
  \/ CheckLeave
  \/ TimePasses
  \/ \E id \in DOMAIN task, k \in EventKinds : SendEvent(id, k)
  \/ \E id \in DOMAIN pending : SendResume(id)

Spec == Init /\ [][Next]_vars

\* ================================================================= properties
\* the step run takes when it hands one drained event to process_message
ProcessesClose ==
  /\ pc = "process"
  /\ msgs # <<>>
  /\ msgs' = Tail(msgs)
  /\ Head(msgs).kind = "Close"

\* ids of the players that were seated (a receive task exists for each)
Seated == DOMAIN task

\* C1: in every reachable state the population counter lies in 0 .. P; in
\* particular handling a Close event never wraps the 8-bit counter below zero.
C1_PopulationInRange == player_count >= 0 /\ player_count <= P

\* C2: processing a close event for id X clears exactly slot X and lowers the
\* population by exactly one; processing a repeated close event for X changes
\* neither the slots nor the population.
C2_CloseExactlyOnce ==
  [][ ProcessesClose =>
        LET x == Head(msgs).id IN
          IF x \in closedIds
            THEN players' = players /\ player_count' = player_count
            ELSE /\ IsSome(players[x])
                 /\ players' = [players EXCEPT ![x] = None]
                 /\ player_count' = player_count - 1 ]_vars

\* C3: start_game is invoked at most once, and only in a state where the
\* population equals the readiness target, after the admission that brought
\* it there has written its slot.
C3_StartOnce ==
  [][ /\ startCalls' <= 1
      /\ startCalls' # startCalls =>
           /\ startCalls = 0
           /\ player_count = ReadyTarget
           /\ admitted >= ReadyTarget
           /\ admLog # <<>>
           /\ admLog[Len(admLog)] = "slot" ]_vars

\* a rejected connection came first, then the admission that made the match
\* ready, and start_game has been entered
C3_Witness ==
  /\ startCalls = 1
  /\ pc = "join_all"
  /\ nconn > admitted
  /\ player_count = ReadyTarget

\* C4: the population counter equals the number of occupied slots, except
\* in the window of one admission between the id being taken and the slot
\* being written, where it is exactly one more.
C4_CountMatchesSlots ==
  IF pc = "sync_clock"
    THEN player_count = Cardinality(Occupied(players)) + 1
    ELSE player_count = Cardinality(Occupied(players))

\* C5: every occupied slot i holds the player whose id is i, and the ids
\* handed to admissions are strictly increasing (so never given twice), also
\* once close events of earlier players have been produced.
C5_SlotIsId ==
  /\ \A i \in Slots : IsSome(players[i]) => Unwrap(players[i]).id = i
  /\ \A j, k \in 1 .. Len(allocIds) : j < k => allocIds[j] < allocIds[k]

\* a seated player whose receive task has already produced a close event
C5_Witness ==
  /\ allocIds # <<>>
  /\ allocIds[1] \in Slots
  /\ IsSome(players[allocIds[1]])
  /\ \E n \in 1 .. Len(queue) :
       queue[n].kind = "Close" /\ queue[n].id = allocIds[1]

\* C6: when the first frame is anything but a client identification, the
\* socket is closed, the table and the counter are untouched, no receive task
\* is spawned, and the match is back waiting for the next connection.
C6_RejectLeavesRegistry ==
  [][ (pc = "whoami" /\ pc' # "whoami" /\ cur'.frame # "BinWhoamiClient") =>
        /\ cur'.sock = "closed"
        /\ players' = players
        /\ player_count' = player_count
        /\ task' = task
        /\ pc' = "recv" ]_vars

\* a connection whose first frame was a non-binary frame has just been rejected
C6_Witness ==
  /\ pc = "recv"
  /\ cur.frame = "Text"
  /\ cur.sock = "closed"
  /\ player_count = 0
  /\ task = <<>>

\* C7: once the close events of all seated players have been processed, the
\* end-of-tick check leaves the loop, and after the loop has exited no further
\* tick is run.
C7_AllClosedExits ==
  [][ /\ (pc = "check" /\ Seated \subseteq closedIds /\ pc' # pc) => pc' = "done"
      /\ pc = "done" => (pc' = "done" /\ tick' = tick) ]_vars

\* C8: with a target population of 3 the match reaches start_game and the
\* running loop only after three admissions, and the loop never exits while
\* the population is above zero.
C8_TargetThree ==
  /\ (pc \in {"start_game", "join_all", "run", "done"} \/ InRun) => admitted >= 3
  /\ pc = "done" => player_count = 0

\* C9 as stated: the processing of tick n begins no earlier than n * FPS
\* after the loop's start instant.
C9_TickNotBeforeN ==
  pc \in {"drain", "process", "sleep", "check"} => tickStart >= tick * FPS

\* C9 amended: the processing of tick n (the loop's counter, 1 in the first
\* iteration) begins no earlier than (n - 1) * FPS after the start instant.
C9_TickNotBeforePrev ==
  pc \in {"drain", "process", "sleep", "check"} => tickStart >= (tick - 1) * FPS

\* the second tick is being processed and began within its own frame
C9_Witness ==
  /\ pc = "drain"
  /\ tick = 2
  /\ tickStart >= FPS
  /\ tickStart < 2 * FPS

\* C10 as stated: get_messages never touches the table or the counter, and
\* what it returns is exactly the queue contents of the moment it was called
\* (nothing when the queue was empty), leaving the queue without them.
C10_DrainExactSnapshot ==
  [][ pc = "drain" =>
        /\ players' = players
        /\ player_count' = player_count
        /\ pc' = "process" => (drained' = drainSnap /\ queue' = <<>>) ]_vars

\* C10 amended: get_messages never touches the table or the counter, and what
\* it returns is the queue contents of the moment it was called followed by
\* the events pushed while it was running, in queue order, leaving the queue
\* empty at the moment it returns.
C10_DrainSnapshotPlusArrivals ==
  [][ pc = "drain" =>
        /\ players' = players
        /\ player_count' = player_count
        /\ pc' = "process" =>
             (drained' = drainSnap \o enqDuring /\ queue' = <<>>) ]_vars

\* a drain that found events waiting and picked up one more pushed meanwhile
C10_Witness ==
  /\ pc = "process"
  /\ drainSnap # <<>>
  /\ enqDuring # <<>>
  /\ drained = drainSnap \o enqDuring

\* C11: when the start broadcast has completed, every player whose send failed
\* has been evicted as by a close event (slot empty, population lowered by
\* one each), so no seated player is left that was never notified; the other
\* players' messages were still built and sent.
C11_FailedSendEvicts ==
  pc = "run" =>
    /\ \A i \in sendFailed : ~IsSome(players[i])
    /\ player_count = Cardinality(DOMAIN startMsgs) - Cardinality(sendFailed)
    /\ Occupied(players) = (DOMAIN startMsgs) \ sendFailed

\* C12: when the lobby channel closes or yields something that is not a new
\* connection during admission, the match ends in a reported error outcome,
\* not in a panic.
C12_FatalIsReported ==
  [][ (pc = "recv" /\ pc' \notin {"recv", "whoami"}) => pc' = "error" ]_vars

\* the sync_clock outcome standing for an I/O error or a timeout
SyncFailed == [ok |-> FALSE, val |-> 0]

C14_StartMessage ==
  [][ startCalls' # startCalls =>
        /\ DOMAIN startMsgs' = Occupied(players)
        /\ admitted >= 1
        /\ \A i \in Occupied(players) :
             /\ startMsgs'[i].seed = seed
             /\ startMsgs'[i].position = Unwrap(players[i]).position
             /\ startMsgs'[i].range = 500
             /\ startMsgs'[i].entity_id = i * 500
        /\ \A i, j \in Occupied(players) :
             i # j =>
               \/ startMsgs'[i].entity_id + startMsgs'[i].range <= startMsgs'[j].entity_id
               \/ startMsgs'[j].entity_id + startMsgs'[j].range <= startMsgs'[i].entity_id ]_vars

\* one valid connection was admitted and its start message has been built
C14_Witness ==
  /\ pc = "join_all"
  /\ nconn = 1
  /\ DOMAIN startMsgs = {0}
  /\ startMsgs[0].seed = seed
  /\ startMsgs[0].entity_id = 0
  /\ startMsgs[0].range = 500

\* the ordinals of player id's events in a sequence of events, in order
Ordinals(evs, id) ==
  LET OfId(e) == e.id = id
      sel == SelectSeq(evs, OfId)
  IN [k \in 1 .. Len(sel) |-> sel[k].n]

\* the event player id's task is suspended with, as a sequence of 0 or 1 events
Waiting(id) == IF id \in DOMAIN pending THEN pending[id] ELSE <<>>

\* C15: the channel never holds more than its capacity, and for every player
\* the events its task has produced are, in the order produced and each
\* exactly once, those run has processed, then those drained or queued, then
\* the one its task is waiting to push into the full channel: none is lost
\* while the channel is full, none is reordered within a player, none is
\* processed twice.
C15_FanInExactlyOnceInOrder ==
  /\ Len(queue) <= QueueCap
  /\ \A id \in DOMAIN task :
       procLog[id] \o Ordinals(msgs \o queue \o Waiting(id), id)
         = [k \in 1 .. task[id] |-> k]

\* the channel is full and the producer is suspended in tx.send holding its
\* next event, while run is in its tick loop
C15_Witness ==
  /\ 0 \in DOMAIN pending
  /\ pending[0] # <<>>
  /\ Len(queue) = QueueCap
  /\ InRun

IsPrefix(s, t) == Len(s) <= Len(t) /\ s = SubSeq(t, 1, Len(s))

\* C16: the steps of one admission happen in the order handshake validated,
\* clock synchroniser run, id allocated, receive task spawned, slot written;
\* the id is taken and the population counter changed only after the clock
\* synchronisation has finished.
C16_AllocAfterSync ==
  /\ \/ IsPrefix(admLog, << "handshake", "sync", "alloc", "spawn", "slot" >>)
     \/ admLog = << "handshake", "reject" >>
  /\ pc = "sync_clock" => player_count = Cardinality(Occupied(players))

\* C17: the tick counter grows by exactly one per iteration; elapsed time is
\* measured from one origin that never moves; after processing tick n the loop
\* sleeps to exactly n * FPS when the elapsed time is below it and wakes no
\* earlier, and otherwise goes straight to the leave check without sleeping,
\* keeping the tick index.
C17_FixedOriginDeadline ==
  [][ /\ tick' # tick => (pc = "loop_top" /\ tick' = tick + 1)
      /\ (pc = "loop_top" /\ pc' # pc) => (pc' = "drain" /\ tick' = tick + 1)
      /\ InRun => elapsed' >= elapsed
      /\ (pc = "process" /\ pc' = "sleep") =>
           (elapsed < tick * FPS /\ sleepUntil' = tick * FPS /\ tick' = tick)
      /\ (pc = "process" /\ pc' = "check") =>
           (elapsed >= tick * FPS /\ tick' = tick)
      /\ (pc = "process" /\ msgs = <<>> /\ pc' # pc) => pc' \in {"sleep", "check"}
      /\ (pc = "sleep" /\ pc' # pc) =>
           (pc' = "check" /\ elapsed >= tick * FPS /\ tick' = tick) ]_vars

\* tick 2 began late, after tick 1 overran its frame, and still sleeps to
\* 2 * FPS measured from the loop's start
C17_Witness ==
  /\ pc = "sleep"
  /\ tick = 2
  /\ tickStart > FPS
  /\ sleepUntil = 2 * FPS

\* the step run takes when it hands one drained inbound message to
\* process_message
ProcessesMsg ==
  /\ pc = "process"
  /\ msgs # <<>>
  /\ msgs' = Tail(msgs)
  /\ Head(msgs).kind = "Msg"

\* C18: a slot goes from empty to occupied only in the admission of a
\* connection that passed the handshake, from occupied to empty only when run
\* processes a close event carrying that slot's id, and processing an inbound
\* message changes neither the slots nor the counter.
C18_OnlyAdmissionAndCloseTouchSlots ==
  [][ /\ players' # players =>
           \A i \in Slots :
             /\ (~IsSome(players[i]) /\ IsSome(players'[i])) =>
                  /\ pc = "sync_clock"
                  /\ cur.frame = "BinWhoamiClient"
                  /\ player_id = i
             /\ (IsSome(players[i]) /\ ~IsSome(players'[i])) =>
                  (ProcessesClose /\ Head(msgs).id = i)
      /\ ProcessesMsg => (players' = players /\ player_count' = player_count) ]_vars

\* run has processed an inbound message of the seated player, who is still
\* seated with the population unchanged
C18_Witness ==
  /\ pc = "process"
  /\ 0 \in DOMAIN procLog
  /\ procLog[0] # <<>>
  /\ closedIds = {}
  /\ IsSome(players[0])
  /\ player_count = 1

\* C19: when the counter handed to Game::new held zero, every id add_player
\* has taken and every id carried by a close event on its way to
\* process_message is below the table's capacity P, and no out-of-bounds slot
\* access is reached.
C19_IdsInsideTable ==
  init_count = 0 =>
    /\ \A k \in 1 .. Len(allocIds) : allocIds[k] >= 0 /\ allocIds[k] < P
    /\ \A k \in 1 .. Len(msgs \o queue) :
         (msgs \o queue)[k].kind = "Close" =>
           ((msgs \o queue)[k].id >= 0 /\ (msgs \o queue)[k].id < P)
    /\ pc # "oob"

\* an id was allocated and written to its slot, and a close event carrying
\* it has been processed
C19_Witness ==
  /\ init_count = 0
  /\ allocIds = << 0 >>
  /\ admitted = 1
  /\ 0 \in closedIds
  /\ ~IsSome(players[0])

\* position of game_run in the life of the match
Phase(p) ==
  CASE p \in {"recv", "whoami", "sync_clock"} -> 0
    [] p \in {"start_game", "join_all"} -> 1
    [] p \in {"run", "loop_top", "drain", "process", "sleep", "check", "done"} -> 2
    [] OTHER -> 3

\* C20: admission, start broadcast and tick loop follow one another and never
\* go back; an event leaves the fan-in queue, a slot is cleared or the counter
\* is decremented only in the tick loop, after the single start broadcast has
\* completed (before it the counter stays or takes one fetch_add); no id is
\* allocated and no player admitted once the broadcast has begun.
C20_PhasesSequential ==
  [][ /\ Phase(pc') >= Phase(pc)
      /\ (queue # <<>> /\ Len(queue') < Len(queue)) =>
           (Phase(pc) = 2 /\ pc = "drain" /\ startCalls = 1)
      /\ Phase(pc) < 2 =>
           /\ \A i \in Slots : IsSome(players[i]) => IsSome(players'[i])
           /\ player_count' \in {player_count, FetchAdd(player_count).new}
           /\ msgs' = <<>>
      /\ (admitted' # admitted \/ allocIds' # allocIds) =>
           (Phase(pc) = 0 /\ startCalls = 0) ]_vars

\* the seated player's receive task pushed a close event while the start
\* broadcast was still being awaited; it waits in the queue
C20_Witness ==
  /\ pc = "join_all"
  /\ \E k \in 1 .. Len(queue) : queue[k].kind = "Close"
  /\ IsSome(players[0])
  /\ player_count = 1

====
